---- MODULE Spec2Model ----
(***************************************************************************)
(* The Pit: task lifecycle, escrow accounting, dispute resolution and the  *)
(* reputation ledger, modelled from the route handlers.                    *)
(*                                                                         *)
(* Every handler is synchronous (sql.js runs in-process), so under Spec    *)
(* one request is one atomic action.  SpecRace splits the claim handler at *)
(* its three SQL statements to check the conditional-update protocol under *)
(* interleaved callers.  SpecRep drives recordReputationEvent directly.    *)
(*                                                                         *)
(* Reputation is a REAL column whose deltas are multiples of 0.5; it is    *)
(* stored here in half points (RepScale units per point).                  *)
(***************************************************************************)
EXTENDS Integers, Sequences, FiniteSets, TLC

VARIABLES
    agents,             \* agents table: id -> row
    tasks,              \* tasks table: sequence of rows, id = index
    task_log,           \* task_log table (append only)
    transactions,       \* transactions table (append only)
    reputation_events,  \* reputation_events table (append only)
    disputes,           \* disputes table: sequence of rows, id = index
    transfers,          \* transfers table (append only)
    badges,             \* badges table: sequence of rows, UNIQUE(agent_id, badge_type)
    notifications,      \* notifications table (append only)
    response,           \* the last HTTP response sent
    claimPc,            \* SpecRace: position of each caller's claim handler
    claimReq            \* SpecRace: the task row read by each in-flight claim

vars == <<agents, tasks, task_log, transactions, reputation_events, disputes,
          transfers, badges, notifications, response, claimPc, claimReq>>

db == <<agents, tasks, task_log, transactions, reputation_events, disputes,
        transfers, badges, notifications>>

----------------------------------------------------------------------------
(* Bounds of the model *)

MaxTasks == 1
MaxCycles == 2
MaxTransfers == 1
MaxFreeEvents == 2
MaxEvidence == 1
MaxSeries == 2

(* Program constants *)

DefaultCredits == 100
MinReward == 1
MaxReward == 1000000
HighValueReward == 50
ArbitratorReputation == 80
MaxArbitrationReward == 10
RepScale == 2

AgentIds == {"a1", "a2", "a3"}

\* SQL NULL in an id column (worker_id, resolved_by).
NoAgent == "null"

\* SQL NULL in a numeric column, and JavaScript NaN.  Neither is an integer the
\* arithmetic of the model can reach.
NULL == 0 - 1000000000
NaN == 0 - 1000000001

NoTask == 0

----------------------------------------------------------------------------
(* SQL and JavaScript arithmetic *)

\* sql.js binds a JavaScript NaN as SQL NULL.
Bind(v) == IF v = NaN THEN NULL ELSE v

\* SQL: any arithmetic with NULL yields NULL.
SqlAdd(x, y) == IF x = NULL \/ y = NULL THEN NULL ELSE x + y
SqlSub(x, y) == IF x = NULL \/ y = NULL THEN NULL ELSE x - y

\* JavaScript: (credits || 0) reads NULL (and 0) as 0.
OrZero(x) == IF x = NULL THEN 0 ELSE x

\* JavaScript comparison x < y: false when either side is NaN; null counts as 0.
\* Faulty variant: a comparison that never holds.
JsLessNever(x, y) == FALSE

JsLess(x, y) == IF x = NaN \/ y = NaN THEN FALSE ELSE OrZero(x) < OrZero(y)

Max(x, y) == IF x >= y THEN x ELSE y
Min(x, y) == IF x <= y THEN x ELSE y

\* parseInt(text, 10) on the request texts the model sends: leading digits (with
\* a sign) are read, anything after them is dropped, no digits gives NaN.
ParseInt(raw) ==
    CASE raw = "-5" -> 0 - 5
      [] raw = "0" -> 0
      [] raw = "1" -> 1
      [] raw = "3" -> 3
      [] raw = "3.9" -> 3
      [] raw = "30" -> 30
      [] raw = "50" -> 50
      [] raw = "50cr" -> 50
      [] raw = "200" -> 200
      [] raw = "300" -> 300
      [] raw = "500" -> 500
      [] OTHER -> NaN

\* !value of a request field: only the empty text is falsy.
Falsy(raw) == raw = ""

sanitizeInt(value, min, max, default) ==
    LET parsed == ParseInt(value)
    IN  IF parsed = NaN THEN default
        ELSE IF parsed < min THEN min
        ELSE IF parsed > max THEN max
        ELSE parsed

\* sanitizeString: trims; a blank text becomes empty.
sanitizeString(str) == IF str = " " THEN "" ELSE str

----------------------------------------------------------------------------
(* The tables as one value, threaded through the statements of a handler *)

Cur == [agents |-> agents, tasks |-> tasks, task_log |-> task_log,
        transactions |-> transactions, reputation_events |-> reputation_events,
        disputes |-> disputes, transfers |-> transfers, badges |-> badges,
        notifications |-> notifications]

Commit(d) ==
    /\ agents' = d.agents
    /\ tasks' = d.tasks
    /\ task_log' = d.task_log
    /\ transactions' = d.transactions
    /\ reputation_events' = d.reputation_events
    /\ disputes' = d.disputes
    /\ transfers' = d.transfers
    /\ badges' = d.badges
    /\ notifications' = d.notifications

NoResponse == [op |-> "none", code |-> 0, error |-> "none"]

Respond(op, code, error) == response' = [op |-> op, code |-> code, error |-> error]

Reject(op, code, error) == Respond(op, code, error) /\ UNCHANGED db

\* The bounds of the model: how many cycles the lifecycle takes (a task reopened
\* by abandonment or rejection, a dispute raised) and how many transfers are made.
Reopens(d) ==
    Cardinality({i \in 1..Len(d.task_log) :
                   d.task_log[i].action \in {"abandoned", "rejected"}})

Within(d) ==
    /\ Reopens(d) + Len(d.disputes) <= MaxCycles
    /\ Len(d.transfers) <= MaxTransfers

Reply(d, op, code) == Within(d) /\ Commit(d) /\ Respond(op, code, "none")

\* UPDATE agents SET credits = credits + ? WHERE id = ?
AddCredits(d, agentId, amount) ==
    [d EXCEPT !.agents[agentId].credits = SqlAdd(@, Bind(amount))]

\* UPDATE tasks SET ... WHERE id = ?
SetTask(d, taskId, row) == [d EXCEPT !.tasks[taskId] = row]

logTaskEvent(d, taskId, agentId, action) ==
    [d EXCEPT !.task_log =
        Append(@, [task_id |-> taskId, agent_id |-> agentId, action |-> action])]

createNotification(d, agentId, type) ==
    [d EXCEPT !.notifications = Append(@, [agent_id |-> agentId, type |-> type])]

recordTransaction(d, agentId, type, amount, taskId) ==
    LET balanceAfter == OrZero(d.agents[agentId].credits) + amount
    IN  [d EXCEPT !.transactions =
            Append(@, [agent_id |-> agentId, type |-> type, amount |-> amount,
                       balance_after |-> balanceAfter, related_task_id |-> taskId])]

----------------------------------------------------------------------------
(* Reputation ledger *)

\* REPUTATION_EVENTS: base points of each event type, in half points.
REPUTATION_EVENTS ==
    [ TASK_COMPLETED |-> 6, TASK_COMPLETED_EARLY |-> 2, EXCELLENT_REVIEW |-> 4,
      GOOD_REVIEW |-> 2, SKILL_ENDORSED |-> 1, DISPUTE_WON |-> 4, FIRST_TASK |-> 10,
      TASK_STREAK_5 |-> 6, TASK_STREAK_10 |-> 10, HIGH_VALUE_TASK |-> 4,
      TASK_REJECTED |-> 0 - 10, TASK_ABANDONED |-> 0 - 4, DISPUTE_LOST |-> 0 - 6,
      POOR_REVIEW |-> 0 - 4, DEADLINE_MISSED |-> 0 - 6, INACTIVE_CLAIM |-> 0 - 2 ]

EventTypes == DOMAIN REPUTATION_EVENTS

\* BADGES, in the order Object.entries visits them.
BadgeOrder ==
    << "newcomer", "first_task", "task_master_10", "task_master_50",
       "task_master_100", "employer_10", "employer_50", "wealthy", "elite_wealth",
       "trusted", "legendary", "perfect", "skilled_5", "endorsed",
       "highly_endorsed", "reviewer", "well_reviewed" >>

\* badge.check(stats).  Skills, endorsements and reviews live in tables outside
\* this model and are empty.
BadgeCheck(badgeType, stats) ==
    CASE badgeType = "newcomer" -> TRUE
      [] badgeType = "first_task" -> stats.tasks_completed >= 1
      [] badgeType = "task_master_10" -> stats.tasks_completed >= 10
      [] badgeType = "task_master_50" -> stats.tasks_completed >= 50
      [] badgeType = "task_master_100" -> stats.tasks_completed >= 100
      [] badgeType = "employer_10" -> stats.tasks_posted >= 10
      [] badgeType = "employer_50" -> stats.tasks_posted >= 50
      [] badgeType = "wealthy" -> stats.credits >= 1000
      [] badgeType = "elite_wealth" -> stats.credits >= 10000
      [] badgeType = "trusted" -> stats.reputation >= 75 * RepScale
      [] badgeType = "legendary" -> stats.reputation >= 90 * RepScale
      [] badgeType = "perfect" -> stats.tasks_completed >= 10 /\ stats.tasks_failed = 0
      [] OTHER -> FALSE

\* SELECT badge_type FROM badges WHERE agent_id = ?
ExistingBadges(d, agentId) ==
    {d.badges[i].badge_type : i \in {j \in 1..Len(d.badges) :
                                        d.badges[j].agent_id = agentId}}

\* INSERT OR IGNORE INTO badges under UNIQUE(agent_id, badge_type).
InsertBadge(d, agentId, badgeType) ==
    IF badgeType \in ExistingBadges(d, agentId) THEN d
    ELSE [d EXCEPT !.badges =
            Append(@, [agent_id |-> agentId, badge_type |-> badgeType])]

\* The body of the badge loop for the badges to award: the row and the
\* notification.
RECURSIVE AwardBadges(_, _, _)
AwardBadges(d, agentId, types) ==
    IF types = <<>> THEN d
    ELSE AwardBadges(createNotification(InsertBadge(d, agentId, Head(types)),
                                        agentId, "badge"),
                     agentId, Tail(types))

\* Faulty variant: the badges the agent holds are not looked at.
checkAndAwardBadgesAgain(d, agentId) ==
    LET stats == d.agents[agentId]
        newBadges == SelectSeq(BadgeOrder, LAMBDA b : BadgeCheck(b, stats))
    IN  AwardBadges(d, agentId, newBadges)

checkAndAwardBadges(d, agentId) ==
    LET stats == d.agents[agentId]
        existingBadges == ExistingBadges(d, agentId)
        newBadges == SelectSeq(BadgeOrder,
                       LAMBDA b : b \notin existingBadges /\ BadgeCheck(b, stats))
    IN  AwardBadges(d, agentId, newBadges)

Abs(x) == IF x < 0 THEN 0 - x ELSE x

\* UPDATE agents SET reputation = MAX(0, MIN(100, reputation + ?))
\* Faulty variant: the clamp without its lower bound.
ClampReputationNoFloor(r) == Min(100 * RepScale, r)

\* MAX(0, MIN(100, reputation + ?))
ClampReputation(r) == Max(0, Min(100 * RepScale, r))

recordReputationEvent(d, agentId, eventType, optMultiplier) ==
    LET multiplier == IF optMultiplier = 0 THEN 1 ELSE optMultiplier
        points == REPUTATION_EVENTS[eventType] * multiplier
        d1 == [d EXCEPT !.reputation_events =
                 Append(@, [agent_id |-> agentId, event_type |-> eventType,
                            points |-> points])]
        d2 == [d1 EXCEPT !.agents[agentId].reputation = ClampReputation(@ + points)]
        d3 == checkAndAwardBadges(d2, agentId)
    IN  IF Abs(points) >= 2 * RepScale
        THEN createNotification(d3, agentId, "reputation")
        ELSE d3

----------------------------------------------------------------------------
(* Initial state: three agents as the seeding of an empty database leaves    *)
(* them, with no task and no reputation event on record.  a1 has three times *)
(* the credits of a registration and has not worked yet; a3 is seeded with   *)
(* five completed tasks, a reputation of 80 and the badges the seeding       *)
(* gives; a2 has spent its credits and lost its reputation before.           *)

InitReputation == [a1 |-> 50 * RepScale, a2 |-> 1 * RepScale, a3 |-> 80 * RepScale]
InitCredits == [a1 |-> 3 * DefaultCredits, a2 |-> 0, a3 |-> 0]
InitCompleted == [a1 |-> 0, a2 |-> 0, a3 |-> 5]

Init ==
    /\ agents = [a \in AgentIds |->
                   [credits |-> InitCredits[a], reputation |-> InitReputation[a],
                    tasks_completed |-> InitCompleted[a], tasks_posted |-> 0,
                    tasks_failed |-> 0]]
    /\ tasks = <<>>
    /\ task_log = <<>>
    /\ transactions = <<>>
    /\ reputation_events = <<>>
    /\ disputes = <<>>
    /\ transfers = <<>>
    /\ badges = << [agent_id |-> "a1", badge_type |-> "newcomer"],
                   [agent_id |-> "a2", badge_type |-> "newcomer"],
                   [agent_id |-> "a3", badge_type |-> "newcomer"],
                   [agent_id |-> "a3", badge_type |-> "first_blood"],
                   [agent_id |-> "a3", badge_type |-> "trusted"] >>
    /\ notifications = <<>>
    /\ response = NoResponse
    /\ claimPc = [a \in AgentIds |-> "idle"]
    /\ claimReq = [a \in AgentIds |-> NoTask]

----------------------------------------------------------------------------
(* Request inputs *)

RawTitles == {" ", "job"}
RawDescriptions == {" ", "work"}
RawRewards == {"", "abc", "-5", "0", "50", "300"}
RawProofs == {"", "done"}
Approvals == {"undefined", "true", "false"}
TaskIds == 1..(MaxTasks + 1)

Exists(taskId) == taskId \in 1..Len(tasks)

----------------------------------------------------------------------------
(* Task lifecycle handlers (routes/tasks.js) *)

\* The create handler, for a tasks table of at most limit rows.
CreateTaskWithin(limit, a, rawTitle, rawDescription, rawReward) ==
    LET agent == agents[a]
        title == sanitizeString(rawTitle)
        description == sanitizeString(rawDescription)
        reward == sanitizeInt(rawReward, MinReward, MaxReward, 0)
        id == Len(tasks) + 1
        d0 == Cur
        d1 == [d0 EXCEPT !.agents[a].credits = SqlSub(@, reward),
                         !.agents[a].tasks_posted = @ + 1]
        d2 == [d1 EXCEPT !.tasks = Append(@,
                 [requester_id |-> a, worker_id |-> NoAgent, reward |-> reward,
                  status |-> "open", proof_submitted |-> "null",
                  claimed_at |-> FALSE, submitted_at |-> FALSE,
                  completed_at |-> FALSE])]
        d3 == logTaskEvent(d2, id, a, "created")
        d4 == recordTransaction(d3, a, "task_escrow", 0 - reward, id)
        d5 == checkAndAwardBadges(d4, a)
    IN  IF Falsy(rawTitle) \/ Falsy(rawDescription) \/ Falsy(rawReward)
        THEN Reject("create", 400, "required")
        ELSE IF title = "" THEN Reject("create", 400, "title")
        ELSE IF description = "" THEN Reject("create", 400, "description")
        ELSE IF reward < 1 THEN Reject("create", 400, "reward")
        ELSE IF JsLess(agent.credits, reward)
        THEN Reject("create", 400, "insufficient_credits")
        ELSE Len(tasks) < limit /\ Reply(d5, "create", 201)

CreateTask(a, rawTitle, rawDescription, rawReward) ==
    CreateTaskWithin(MaxTasks, a, rawTitle, rawDescription, rawReward)

\* The pre-checks of the claim handler on the row it read.
\* Faulty variant: the requester is not turned away.
ClaimPrecheckOwnTask(a, taskId) ==
    IF ~Exists(taskId) THEN "not_found"
    ELSE IF tasks[taskId].status # "open" THEN "not_open"
    ELSE "ok"

ClaimPrecheck(a, taskId) ==
    IF ~Exists(taskId) THEN "not_found"
    ELSE IF tasks[taskId].status # "open" THEN "not_open"
    ELSE IF tasks[taskId].requester_id = a THEN "own_task"
    ELSE "ok"

\* UPDATE tasks SET status = 'claimed', worker_id = ?, claimed_at = now
\* WHERE id = ? AND status = 'open'
\* Faulty variant: the update without its status condition.
ClaimUpdateStmtAnyStatus(d, a, taskId) ==
    IF taskId \in 1..Len(d.tasks)
    THEN SetTask(d, taskId, [d.tasks[taskId] EXCEPT !.status = "claimed",
                                !.worker_id = a, !.claimed_at = TRUE])
    ELSE d

ClaimUpdateStmt(d, a, taskId) ==
    IF taskId \in 1..Len(d.tasks) /\ d.tasks[taskId].status = "open"
    THEN SetTask(d, taskId, [d.tasks[taskId] EXCEPT !.status = "claimed",
                                !.worker_id = a, !.claimed_at = TRUE])
    ELSE d

\* Faulty variant: the read-back does not compare the worker.
ClaimVerifiedStatusOnly(d, a, taskId) ==
    /\ taskId \in 1..Len(d.tasks)
    /\ d.tasks[taskId].status = "claimed"

\* The read-back after the update: did this caller get the task?
ClaimVerified(d, a, taskId) ==
    /\ taskId \in 1..Len(d.tasks)
    /\ d.tasks[taskId].status = "claimed"
    /\ d.tasks[taskId].worker_id = a

\* What follows a verified claim: the audit entry and the requester's notification.
ClaimFinish(d, a, taskId) ==
    createNotification(logTaskEvent(d, taskId, a, "claimed"),
                       d.tasks[taskId].requester_id, "task_claimed")

ErrorCode(error) ==
    CASE error = "not_found" -> 404
      [] error = "forbidden" -> 403
      [] error = "conflict" -> 409
      [] OTHER -> 400

ClaimTask(a, taskId) ==
    LET pre == ClaimPrecheck(a, taskId)
        d1 == ClaimUpdateStmt(Cur, a, taskId)
    IN  IF pre # "ok" THEN Reject("claim", ErrorCode(pre), pre)
        ELSE IF ~ClaimVerified(d1, a, taskId) THEN Reject("claim", 409, "conflict")
        ELSE Reply(ClaimFinish(d1, a, taskId), "claim", 200)

\* Faulty variant: the writes are made before the status is checked.
SubmitWorkWriteFirst(a, taskId, rawProof) ==
    LET proof == sanitizeString(rawProof)
        task == tasks[taskId]
        d1 == SetTask(Cur, taskId, [task EXCEPT !.proof_submitted = proof,
                        !.submitted_at = TRUE])
        d2 == logTaskEvent(d1, taskId, a, "submitted")
    IN  IF Falsy(rawProof) THEN Reject("submit", 400, "required")
        ELSE IF ~Exists(taskId) THEN Reject("submit", 404, "not_found")
        ELSE IF task.worker_id # a THEN Reject("submit", 403, "forbidden")
        ELSE IF task.status # "claimed"
        THEN Commit(d2) /\ Respond("submit", 400, "invalid_state")
        ELSE Reply(SetTask(d2, taskId, [d2.tasks[taskId] EXCEPT !.status = "submitted"]),
                   "submit", 200)

SubmitWork(a, taskId, rawProof) ==
    LET proof == sanitizeString(rawProof)
        task == tasks[taskId]
        d1 == SetTask(Cur, taskId, [task EXCEPT !.status = "submitted",
                        !.proof_submitted = proof, !.submitted_at = TRUE])
        d2 == logTaskEvent(d1, taskId, a, "submitted")
    IN  IF Falsy(rawProof) THEN Reject("submit", 400, "required")
        ELSE IF ~Exists(taskId) THEN Reject("submit", 404, "not_found")
        ELSE IF task.worker_id # a THEN Reject("submit", 403, "forbidden")
        ELSE IF task.status # "claimed" THEN Reject("submit", 400, "invalid_state")
        ELSE Reply(d2, "submit", 200)

\* The approve branch of the validate handler: its first statement pays the
\* worker, the statements after it record the completion.
\* Faulty variant: the payment without the completed counter.
ApprovePayStmtNoCount(d0, taskId) ==
    AddCredits(d0, d0.tasks[taskId].worker_id, d0.tasks[taskId].reward)

ApprovePayStmt(d0, taskId) ==
    LET task == d0.tasks[taskId]
        w == task.worker_id
    IN  [AddCredits(d0, w, task.reward) EXCEPT !.agents[w].tasks_completed = @ + 1]

\* Faulty variant: the high-value bonus given whatever the reward.
ApproveRestAlwaysBonus(d1, a, taskId) ==
    LET task == d1.tasks[taskId]
        w == task.worker_id
        d2 == SetTask(d1, taskId, [task EXCEPT !.status = "completed",
                                      !.completed_at = TRUE])
        d3 == logTaskEvent(d2, taskId, a, "approved")
        d4 == recordTransaction(d3, w, "task_payment", task.reward, taskId)
        d5 == recordReputationEvent(d4, w, "TASK_COMPLETED", 0)
        d6 == recordReputationEvent(d5, w, "HIGH_VALUE_TASK", 0)
        d7 == IF d6.agents[w].tasks_completed = 1
              THEN recordReputationEvent(d6, w, "FIRST_TASK", 0) ELSE d6
        d8 == checkAndAwardBadges(d7, w)
    IN  createNotification(d8, w, "payment")

\* Faulty variant: the first-task event is given at every approval.
ApproveRestFirstAgain(d1, a, taskId) ==
    LET task == d1.tasks[taskId]
        w == task.worker_id
        d2 == SetTask(d1, taskId, [task EXCEPT !.status = "completed",
                                      !.completed_at = TRUE])
        d3 == logTaskEvent(d2, taskId, a, "approved")
        d4 == recordTransaction(d3, w, "task_payment", task.reward, taskId)
        d5 == recordReputationEvent(d4, w, "TASK_COMPLETED", 0)
        d6 == IF task.reward >= HighValueReward
              THEN recordReputationEvent(d5, w, "HIGH_VALUE_TASK", 0) ELSE d5
        d7 == recordReputationEvent(d6, w, "FIRST_TASK", 0)
        d8 == checkAndAwardBadges(d7, w)
    IN  createNotification(d8, w, "payment")

ApproveRest(d1, a, taskId) ==
    LET task == d1.tasks[taskId]
        w == task.worker_id
        d2 == SetTask(d1, taskId, [task EXCEPT !.status = "completed",
                                      !.completed_at = TRUE])
        d3 == logTaskEvent(d2, taskId, a, "approved")
        d4 == recordTransaction(d3, w, "task_payment", task.reward, taskId)
        d5 == recordReputationEvent(d4, w, "TASK_COMPLETED", 0)
        d6 == IF task.reward >= HighValueReward
              THEN recordReputationEvent(d5, w, "HIGH_VALUE_TASK", 0) ELSE d5
        d7 == IF d6.agents[w].tasks_completed = 1
              THEN recordReputationEvent(d6, w, "FIRST_TASK", 0) ELSE d6
        d8 == checkAndAwardBadges(d7, w)
    IN  createNotification(d8, w, "payment")

ApproveWork(d0, a, taskId) == ApproveRest(ApprovePayStmt(d0, taskId), a, taskId)

\* The reject branch of the validate handler.
\* Faulty variant: the rejected worker's failure is not counted.
RejectWorkNoCount(d0, a, taskId) ==
    LET task == d0.tasks[taskId]
        w == task.worker_id
        d1 == AddCredits(d0, task.requester_id, task.reward)
        d3 == SetTask(d1, taskId, [task EXCEPT !.status = "open",
                        !.worker_id = NoAgent, !.claimed_at = FALSE,
                        !.submitted_at = FALSE, !.proof_submitted = "null"])
        d4 == logTaskEvent(d3, taskId, a, "rejected")
        d5 == recordTransaction(d4, task.requester_id, "escrow_release",
                                task.reward, taskId)
        d6 == recordReputationEvent(d5, w, "TASK_REJECTED", 0)
    IN  createNotification(d6, w, "rejection")

RejectWork(d0, a, taskId) ==
    LET task == d0.tasks[taskId]
        w == task.worker_id
        d1 == AddCredits(d0, task.requester_id, task.reward)
        d2 == [d1 EXCEPT !.agents[w].tasks_failed = @ + 1]
        d3 == SetTask(d2, taskId, [task EXCEPT !.status = "open",
                        !.worker_id = NoAgent, !.claimed_at = FALSE,
                        !.submitted_at = FALSE, !.proof_submitted = "null"])
        d4 == logTaskEvent(d3, taskId, a, "rejected")
        d5 == recordTransaction(d4, task.requester_id, "escrow_release",
                                task.reward, taskId)
        d6 == recordReputationEvent(d5, w, "TASK_REJECTED", 0)
    IN  createNotification(d6, w, "rejection")

ValidateWork(a, taskId, approved) ==
    IF approved = "undefined" THEN Reject("validate", 400, "required")
    ELSE IF ~Exists(taskId) THEN Reject("validate", 404, "not_found")
    ELSE IF tasks[taskId].requester_id # a THEN Reject("validate", 403, "forbidden")
    ELSE IF tasks[taskId].status # "submitted"
    THEN Reject("validate", 400, "invalid_state")
    ELSE IF approved = "true" THEN Reply(ApproveWork(Cur, a, taskId), "validate", 200)
    ELSE Reply(RejectWork(Cur, a, taskId), "validate", 200)

\* Faulty variant: abandonment without its status check.
AbandonTaskAnyStatus(a, taskId) ==
    LET task == tasks[taskId]
        d1 == SetTask(Cur, taskId, [task EXCEPT !.status = "open",
                        !.worker_id = NoAgent, !.claimed_at = FALSE])
        d2 == logTaskEvent(d1, taskId, a, "abandoned")
        d3 == recordReputationEvent(d2, a, "TASK_ABANDONED", 0)
        d4 == createNotification(d3, task.requester_id, "task_abandoned")
    IN  IF ~Exists(taskId) THEN Reject("abandon", 404, "not_found")
        ELSE IF task.worker_id # a THEN Reject("abandon", 403, "forbidden")
        ELSE Reply(d4, "abandon", 200)

AbandonTask(a, taskId) ==
    LET task == tasks[taskId]
        d1 == SetTask(Cur, taskId, [task EXCEPT !.status = "open",
                        !.worker_id = NoAgent, !.claimed_at = FALSE])
        d2 == logTaskEvent(d1, taskId, a, "abandoned")
        d3 == recordReputationEvent(d2, a, "TASK_ABANDONED", 0)
        d4 == createNotification(d3, task.requester_id, "task_abandoned")
    IN  IF ~Exists(taskId) THEN Reject("abandon", 404, "not_found")
        ELSE IF task.worker_id # a THEN Reject("abandon", 403, "forbidden")
        ELSE IF task.status # "claimed" THEN Reject("abandon", 400, "invalid_state")
        ELSE Reply(d4, "abandon", 200)

\* Faulty variant: cancellation without its status check.
CancelTaskAnyStatus(a, taskId) ==
    LET task == tasks[taskId]
        d1 == AddCredits(Cur, a, task.reward)
        d2 == SetTask(d1, taskId, [task EXCEPT !.status = "cancelled"])
        d3 == logTaskEvent(d2, taskId, a, "cancelled")
        d4 == recordTransaction(d3, a, "refund", task.reward, taskId)
    IN  IF ~Exists(taskId) THEN Reject("cancel", 404, "not_found")
        ELSE IF task.requester_id # a THEN Reject("cancel", 403, "forbidden")
        ELSE Reply(d4, "cancel", 200)

\* The cancel handler's checks, its first statement (the refund) and the
\* statements after it.
CancelPrecheck(a, taskId) ==
    IF ~Exists(taskId) THEN "not_found"
    ELSE IF tasks[taskId].requester_id # a THEN "forbidden"
    ELSE IF tasks[taskId].status # "open" THEN "invalid_state"
    ELSE "ok"

CancelRefundStmt(d0, a, taskId) == AddCredits(d0, a, d0.tasks[taskId].reward)

CancelRest(d1, a, taskId) ==
    LET task == d1.tasks[taskId]
        d2 == SetTask(d1, taskId, [task EXCEPT !.status = "cancelled"])
        d3 == logTaskEvent(d2, taskId, a, "cancelled")
    IN  recordTransaction(d3, a, "refund", task.reward, taskId)

CancelTask(a, taskId) ==
    LET task == tasks[taskId]
        d4 == CancelRest(CancelRefundStmt(Cur, a, taskId), a, taskId)
    IN  IF ~Exists(taskId) THEN Reject("cancel", 404, "not_found")
        ELSE IF task.requester_id # a THEN Reject("cancel", 403, "forbidden")
        ELSE IF task.status # "open" THEN Reject("cancel", 400, "invalid_state")
        ELSE Reply(d4, "cancel", 200)

----------------------------------------------------------------------------
(* Dispute handlers (routes/disputes.js) *)

RawReasons == {"", "bad work"}
RawEvidence == {"", "log"}
Decisions == {"favor_requester", "favor_worker", "split", "cancel"}
RawDecisions == Decisions \cup {"", "maybe"}
DisputeIds == 1..(MaxCycles + 1)

DisputeExists(disputeId) == disputeId \in 1..Len(disputes)

\* SELECT id FROM disputes WHERE task_id = ? AND status = 'open'
OpenDisputes(ds, taskId) ==
    {i \in 1..Len(ds) : ds[i].task_id = taskId /\ ds[i].status = "open"}

\* Faulty variant: a dispute raised whatever the task's status and disputes.
RaiseDisputeNoChecks(a, taskId, rawReason, rawEvidence) ==
    LET task == tasks[taskId]
        evidence == IF Falsy(rawEvidence) THEN "null" ELSE sanitizeString(rawEvidence)
        d1 == [Cur EXCEPT !.disputes = Append(@,
                 [task_id |-> taskId, raised_by |-> a, status |-> "open",
                  evidence |-> evidence, entries |-> <<>>,
                  resolution |-> "null", resolved_by |-> NoAgent])]
        d2 == SetTask(d1, taskId, [task EXCEPT !.status = "disputed"])
    IN  IF Falsy(rawReason) THEN Reject("raise", 400, "required")
        ELSE IF ~Exists(taskId) THEN Reject("raise", 404, "not_found")
        ELSE IF task.requester_id # a /\ task.worker_id # a
        THEN Reject("raise", 403, "forbidden")
        ELSE Reply(d2, "raise", 201)

RaiseDispute(a, taskId, rawReason, rawEvidence) ==
    LET task == tasks[taskId]
        evidence == IF Falsy(rawEvidence) THEN "null" ELSE sanitizeString(rawEvidence)
        id == Len(disputes) + 1
        d1 == [Cur EXCEPT !.disputes = Append(@,
                 [task_id |-> taskId, raised_by |-> a, status |-> "open",
                  evidence |-> evidence, entries |-> <<>>,
                  resolution |-> "null", resolved_by |-> NoAgent])]
        d2 == SetTask(d1, taskId, [task EXCEPT !.status = "disputed"])
        otherPartyId == IF task.requester_id = a THEN task.worker_id
                        ELSE task.requester_id
        d3 == IF otherPartyId # NoAgent
              THEN createNotification(d2, otherPartyId, "dispute") ELSE d2
    IN  IF Falsy(rawReason) THEN Reject("raise", 400, "required")
        ELSE IF ~Exists(taskId) THEN Reject("raise", 404, "not_found")
        ELSE IF task.requester_id # a /\ task.worker_id # a
        THEN Reject("raise", 403, "forbidden")
        ELSE IF task.status \notin {"submitted", "completed"}
        THEN Reject("raise", 400, "invalid_state")
        ELSE IF OpenDisputes(disputes, taskId) # {}
        THEN Reject("raise", 400, "dispute_exists")
        ELSE Reply(d3, "raise", 201)

\* Array.isArray(JSON.parse(text)) for the texts a raiser can store: sanitizeString
\* escapes quotes, so of the JSON arrays only those without strings survive it.
ParsesAsArray(text) == text = "[]"

\* existingEvidence of the evidence handler: the entries the handler stored
\* earlier, or the column parsed as JSON, or, when that is not an array, the
\* raiser's text as one entry by the raiser (without a timestamp).
ExistingEvidence(dispute) ==
    IF dispute.evidence = "json" THEN dispute.entries
    ELSE IF dispute.evidence = "null" THEN <<>>
    ELSE IF ParsesAsArray(dispute.evidence) THEN <<>>
    ELSE << [text |-> dispute.evidence, agent_id |-> dispute.raised_by,
             timestamp |-> "none"] >>

\* The entries the evidence handler itself has pushed, over all disputes.
RECURSIVE Pushed(_)
Pushed(ds) ==
    IF ds = <<>> THEN 0
    ELSE Pushed(Tail(ds)) +
         Len(SelectSeq(Head(ds).entries, LAMBDA e : e.timestamp # "none"))

\* Faulty variant: evidence taken whatever the dispute's status.
AddEvidenceAnyStatus(a, disputeId, rawEvidence) ==
    LET dispute == disputes[disputeId]
        task == tasks[dispute.task_id]
        evidence == sanitizeString(rawEvidence)
        existing == Append(ExistingEvidence(dispute),
                           [text |-> evidence, agent_id |-> a,
                            timestamp |-> "now"])
        d1 == [Cur EXCEPT !.disputes[disputeId].entries = existing,
                          !.disputes[disputeId].evidence = "json"]
    IN  IF Falsy(rawEvidence) THEN Reject("evidence", 400, "required")
        ELSE IF ~DisputeExists(disputeId) THEN Reject("evidence", 404, "not_found")
        ELSE IF dispute.raised_by # a /\ task.requester_id # a /\ task.worker_id # a
        THEN Reject("evidence", 403, "forbidden")
        ELSE Pushed(d1.disputes) <= MaxEvidence /\ Reply(d1, "evidence", 200)

AddEvidence(a, disputeId, rawEvidence) ==
    LET dispute == disputes[disputeId]
        task == tasks[dispute.task_id]
        evidence == sanitizeString(rawEvidence)
        existing == Append(ExistingEvidence(dispute),
                           [text |-> evidence, agent_id |-> a,
                            timestamp |-> "now"])
        d1 == [Cur EXCEPT !.disputes[disputeId].entries = existing,
                          !.disputes[disputeId].evidence = "json"]
    IN  IF Falsy(rawEvidence) THEN Reject("evidence", 400, "required")
        ELSE IF ~DisputeExists(disputeId) THEN Reject("evidence", 404, "not_found")
        ELSE IF dispute.status # "open" THEN Reject("evidence", 400, "invalid_state")
        ELSE IF dispute.raised_by # a /\ task.requester_id # a /\ task.worker_id # a
        THEN Reject("evidence", 403, "forbidden")
        ELSE Pushed(d1.disputes) <= MaxEvidence /\ Reply(d1, "evidence", 200)

\* Math.min(10, Math.floor(reward * 0.05))
\* Faulty variant: the arbitration reward without its cap.
ArbitrationRewardUncapped(reward) == (reward * 5) \div 100

ArbitrationReward(reward) == Min(MaxArbitrationReward, (reward * 5) \div 100)

\* The switch on the decision: credit movements and reputation events.
\* Faulty variant: the half rounded up.
HalfRewardCeil(reward) == (reward + 1) \div 2

\* Math.floor(task.reward / 2)
HalfReward(reward) == reward \div 2

\* case 'favor_worker'
\* Faulty variant: the worker is paid but the completion is not counted.
FavorWorkerNoCount(d0, task, taskId) ==
    LET r == task.requester_id
        w == task.worker_id
        d1 == AddCredits(d0, w, task.reward)
        d2 == recordTransaction(d1, w, "task_payment", task.reward, taskId)
        d3 == recordReputationEvent(d2, w, "DISPUTE_WON", 0)
    IN  IF w # NoAgent THEN recordReputationEvent(d3, r, "DISPUTE_LOST", 0) ELSE d0

FavorWorker(d0, task, taskId) ==
    LET r == task.requester_id
        w == task.worker_id
        d1 == [AddCredits(d0, w, task.reward) EXCEPT
                 !.agents[w].tasks_completed = @ + 1]
        d2 == recordTransaction(d1, w, "task_payment", task.reward, taskId)
        d3 == recordReputationEvent(d2, w, "DISPUTE_WON", 0)
    IN  IF w # NoAgent THEN recordReputationEvent(d3, r, "DISPUTE_LOST", 0) ELSE d0

\* case 'favor_requester'
\* Faulty variant: the worker's failure is not counted.
FavorRequesterNoCount(d0, task, taskId) ==
    LET r == task.requester_id
        w == task.worker_id
        d1 == AddCredits(d0, r, task.reward)
        d2 == recordTransaction(d1, r, "refund", task.reward, taskId)
        d3 == recordReputationEvent(d2, r, "DISPUTE_WON", 0)
    IN  IF w # NoAgent THEN recordReputationEvent(d3, w, "DISPUTE_LOST", 0) ELSE d3

FavorRequester(d0, task, taskId) ==
    LET r == task.requester_id
        w == task.worker_id
        d1 == AddCredits(d0, r, task.reward)
        d2 == recordTransaction(d1, r, "refund", task.reward, taskId)
        d3 == recordReputationEvent(d2, r, "DISPUTE_WON", 0)
    IN  IF w # NoAgent
        THEN [recordReputationEvent(d3, w, "DISPUTE_LOST", 0) EXCEPT
                !.agents[w].tasks_failed = @ + 1]
        ELSE d3

\* case 'split'
SplitReward(d0, task, taskId) ==
    LET r == task.requester_id
        w == task.worker_id
        reward == task.reward
        halfReward == HalfReward(reward)
        d1 == AddCredits(d0, r, halfReward)
        d2 == recordTransaction(d1, r, "refund_partial", halfReward, taskId)
    IN  IF w # NoAgent
        THEN recordTransaction(AddCredits(d2, w, reward - halfReward), w,
               "task_payment_partial", reward - halfReward, taskId)
        ELSE d2

\* case 'cancel'
\* Faulty variant: the cancelled dispute counted as won by the requester.
CancelDisputeAsWon(d0, task, taskId) ==
    LET r == task.requester_id
        d1 == AddCredits(d0, r, task.reward)
        d2 == recordTransaction(d1, r, "refund", task.reward, taskId)
    IN  recordReputationEvent(d2, r, "DISPUTE_WON", 0)

CancelDispute(d0, task, taskId) ==
    LET r == task.requester_id
        d1 == AddCredits(d0, r, task.reward)
    IN  recordTransaction(d1, r, "refund", task.reward, taskId)

Settle(d0, dispute, task, decision) ==
    CASE decision = "favor_worker" -> FavorWorker(d0, task, dispute.task_id)
      [] decision = "favor_requester" -> FavorRequester(d0, task, dispute.task_id)
      [] decision = "split" -> SplitReward(d0, task, dispute.task_id)
      [] OTHER -> CancelDispute(d0, task, dispute.task_id)

\* let taskStatus, as the switch leaves it.
SettledStatus(decision) ==
    IF decision \in {"favor_worker", "split"} THEN "completed" ELSE "cancelled"

\* Faulty variant: the parties are not recognised.
IsInvolvedNobody(a, dispute, task) == FALSE

IsInvolved(a, dispute, task) ==
    a \in {dispute.raised_by, task.requester_id, task.worker_id}

\* Faulty variant: any agent that is not involved arbitrates.
IsArbitratorAnyone(a, dispute, task) == ~IsInvolved(a, dispute, task)

IsArbitrator(a, dispute, task) ==
    /\ agents[a].reputation >= ArbitratorReputation * RepScale
    /\ ~IsInvolved(a, dispute, task)

RECURSIVE NotifyParties(_, _)
NotifyParties(d, parties) ==
    IF parties = <<>> THEN d
    ELSE NotifyParties(createNotification(d, Head(parties), "dispute_resolved"),
                       Tail(parties))

ResolveDispute(a, disputeId, decision) ==
    LET dispute == disputes[disputeId]
        task == tasks[dispute.task_id]
        isArbitrator == IsArbitrator(a, dispute, task)
        d1 == Settle(Cur, dispute, task, decision)
        d2 == [d1 EXCEPT !.disputes[disputeId].status = "resolved",
                         !.disputes[disputeId].resolution = decision,
                         !.disputes[disputeId].resolved_by = a]
        d3 == SetTask(d2, dispute.task_id,
                      [d2.tasks[dispute.task_id] EXCEPT !.status = SettledStatus(decision)])
        fee == ArbitrationReward(task.reward)
        d4 == IF isArbitrator /\ fee > 0
              THEN recordTransaction(AddCredits(d3, a, fee), a, "arbitration_reward",
                                     fee, dispute.task_id)
              ELSE d3
        parties == SelectSeq(<<task.requester_id, task.worker_id>>,
                             LAMBDA p : p # NoAgent)
        d5 == NotifyParties(d4, parties)
    IN  IF decision \notin Decisions THEN Reject("resolve", 400, "decision")
        ELSE IF ~DisputeExists(disputeId) THEN Reject("resolve", 404, "not_found")
        ELSE IF dispute.status # "open" THEN Reject("resolve", 400, "invalid_state")
        ELSE IF ~IsInvolved(a, dispute, task) /\ ~isArbitrator
        THEN Reject("resolve", 403, "forbidden")
        ELSE Reply(d5, "resolve", 200)

----------------------------------------------------------------------------
(* Transfer handler (routes/transactions.js) *)

Recipients == AgentIds \cup {"", "ghost"}
RawAmounts == {"", "abc", "-5", "50", "500"}

Transfer(a, to, rawAmount) ==
    LET agent == agents[a]
        transferAmount == ParseInt(rawAmount)
        d1 == [Cur EXCEPT !.agents[a].credits = SqlSub(@, Bind(transferAmount))]
        d2 == AddCredits(d1, to, transferAmount)
        d3 == [d2 EXCEPT !.transfers = Append(@,
                 [from_agent_id |-> a, to_agent_id |-> to, amount |-> transferAmount])]
        d4 == recordTransaction(d3, a, "transfer_out", 0 - transferAmount, NoTask)
        d5 == recordTransaction(d4, to, "transfer_in", transferAmount, NoTask)
        d6 == createNotification(d5, to, "transfer")
    IN  IF Falsy(to) \/ Falsy(rawAmount) THEN Reject("transfer", 400, "required")
        ELSE IF JsLess(transferAmount, 1) THEN Reject("transfer", 400, "amount")
        ELSE IF JsLess(agent.credits, transferAmount)
        THEN Reject("transfer", 400, "insufficient_credits")
        ELSE IF to = a THEN Reject("transfer", 400, "self")
        ELSE IF to \notin AgentIds THEN Reject("transfer", 404, "not_found")
        ELSE IF Bind(transferAmount) = NULL
        THEN \* transfers.amount is NOT NULL: the INSERT throws after both UPDATEs ran
             Commit(d2) /\ Respond("transfer", 500, "failed")
        ELSE Reply(d6, "transfer", 201)

----------------------------------------------------------------------------
(* The claim handler, one SQL statement at a time (SpecRace) *)

ClaimSelect(a, taskId) ==
    LET pre == ClaimPrecheck(a, taskId)
    IN  /\ claimPc[a] = "idle"
        /\ response = NoResponse
        /\ IF pre # "ok"
           THEN Reject("claim", ErrorCode(pre), pre) /\ UNCHANGED <<claimPc, claimReq>>
           ELSE /\ claimPc' = [claimPc EXCEPT ![a] = "update"]
                /\ claimReq' = [claimReq EXCEPT ![a] = taskId]
                /\ UNCHANGED <<db, response>>

ClaimUpdate(a) ==
    /\ claimPc[a] = "update"
    /\ Commit(ClaimUpdateStmt(Cur, a, claimReq[a]))
    /\ claimPc' = [claimPc EXCEPT ![a] = "verify"]
    /\ UNCHANGED <<claimReq, response>>

ClaimVerify(a) ==
    /\ claimPc[a] = "verify"
    /\ response = NoResponse
    /\ IF ~ClaimVerified(Cur, a, claimReq[a])
       THEN Reject("claim", 409, "conflict")
       ELSE Reply(ClaimFinish(Cur, a, claimReq[a]), "claim", 200)
    /\ claimPc' = [claimPc EXCEPT ![a] = "idle"]
    /\ claimReq' = [claimReq EXCEPT ![a] = NoTask]

----------------------------------------------------------------------------
(* The approve and cancel handlers cut after their first statement, and the  *)
(* process stopping in between (SpecCrash).  Every statement is saved to the *)
(* database file as it runs, so a restart finds the statements made so far.  *)

\* No handler is in progress.  A caller whose handler was cut by a stop sends
\* no further request.
Serial == \A b \in AgentIds : claimPc[b] \in {"idle", "stopped"}

ApprovePay(a, taskId) ==
    /\ Serial
    /\ claimPc[a] = "idle"
    /\ response = NoResponse
    /\ IF ~Exists(taskId)
       THEN Reject("validate", 404, "not_found") /\ UNCHANGED <<claimPc, claimReq>>
       ELSE IF tasks[taskId].requester_id # a
       THEN Reject("validate", 403, "forbidden") /\ UNCHANGED <<claimPc, claimReq>>
       ELSE IF tasks[taskId].status # "submitted"
       THEN Reject("validate", 400, "invalid_state") /\ UNCHANGED <<claimPc, claimReq>>
       ELSE /\ Commit(ApprovePayStmt(Cur, taskId))
            /\ claimPc' = [claimPc EXCEPT ![a] = "approve"]
            /\ claimReq' = [claimReq EXCEPT ![a] = taskId]
            /\ UNCHANGED response

ApproveFinish(a) ==
    /\ claimPc[a] = "approve"
    /\ Reply(ApproveRest(Cur, a, claimReq[a]), "validate", 200)
    /\ claimPc' = [claimPc EXCEPT ![a] = "idle"]
    /\ claimReq' = [claimReq EXCEPT ![a] = NoTask]

CancelRefund(a, taskId) ==
    LET pre == CancelPrecheck(a, taskId)
    IN  /\ Serial
        /\ claimPc[a] = "idle"
        /\ response = NoResponse
        /\ IF pre # "ok"
           THEN Reject("cancel", ErrorCode(pre), pre) /\ UNCHANGED <<claimPc, claimReq>>
           ELSE /\ Commit(CancelRefundStmt(Cur, a, taskId))
                /\ claimPc' = [claimPc EXCEPT ![a] = "cancel"]
                /\ claimReq' = [claimReq EXCEPT ![a] = taskId]
                /\ UNCHANGED response

CancelFinish(a) ==
    /\ claimPc[a] = "cancel"
    /\ Reply(CancelRest(Cur, a, claimReq[a]), "cancel", 200)
    /\ claimPc' = [claimPc EXCEPT ![a] = "idle"]
    /\ claimReq' = [claimReq EXCEPT ![a] = NoTask]

\* The process stops while a handler is between two statements and is started
\* again: the handler and its response are gone, the saved tables remain.
Stop ==
    /\ ~Serial
    /\ claimPc' = [a \in AgentIds |->
                     IF claimPc[a] \in {"approve", "cancel"} THEN "stopped"
                     ELSE claimPc[a]]
    /\ claimReq' = [a \in AgentIds |-> NoTask]
    /\ response' = NoResponse
    /\ UNCHANGED db

----------------------------------------------------------------------------
(* recordReputationEvent called directly (SpecRep) *)

EventInputs == EventTypes \cup {"NO_SUCH_EVENT"}
Multipliers == {0, 1, 10}

RecordEvent(a, eventType, multiplier) ==
    /\ Len(reputation_events) < MaxFreeEvents
    /\ IF eventType \notin EventTypes
       THEN UNCHANGED db
       ELSE Commit(recordReputationEvent(Cur, a, eventType, multiplier))
    /\ UNCHANGED <<response, claimPc, claimReq>>

----------------------------------------------------------------------------
(* Specifications *)

\* The server handles one request at a time, to completion: a handler runs when
\* no response is pending and its caller has no other request in progress, and
\* NextRequest is the response leaving the server.
Ready(a) ==
    /\ response = NoResponse
    /\ claimPc[a] = "idle"
    /\ UNCHANGED <<claimPc, claimReq>>

NextRequest ==
    /\ response # NoResponse
    /\ response' = NoResponse
    /\ UNCHANGED <<db, claimPc, claimReq>>

Create ==
    \E a \in AgentIds, ti \in RawTitles, de \in RawDescriptions, rw \in RawRewards :
        Ready(a) /\ CreateTask(a, ti, de, rw)
Claim == \E a \in AgentIds, t \in TaskIds : Ready(a) /\ ClaimTask(a, t)
Submit == \E a \in AgentIds, t \in TaskIds, pr \in RawProofs : Ready(a) /\ SubmitWork(a, t, pr)
Validate ==
    \E a \in AgentIds, t \in TaskIds, ap \in Approvals : Ready(a) /\ ValidateWork(a, t, ap)
Abandon == \E a \in AgentIds, t \in TaskIds : Ready(a) /\ AbandonTask(a, t)
Cancel == \E a \in AgentIds, t \in TaskIds : Ready(a) /\ CancelTask(a, t)
Raise ==
    \E a \in AgentIds, t \in TaskIds, re \in RawReasons, ev \in RawEvidence :
        Ready(a) /\ RaiseDispute(a, t, re, ev)
Evidence ==
    \E a \in AgentIds, i \in DisputeIds, ev \in RawEvidence :
        Ready(a) /\ AddEvidence(a, i, ev)
Resolve ==
    \E a \in AgentIds, i \in DisputeIds, de \in RawDecisions :
        Ready(a) /\ ResolveDispute(a, i, de)
Send ==
    \E a \in AgentIds, to \in Recipients, am \in RawAmounts :
        Ready(a) /\ Transfer(a, to, am)

\* Task lifecycle and disputes.
Next ==
    \/ Create
    \/ Claim
    \/ Submit
    \/ Validate
    \/ Abandon
    \/ Cancel
    \/ Raise
    \/ Resolve
    \/ NextRequest

Spec == Init /\ [][Next]_vars

\* Evidence added to disputes, before and after they are resolved.
NextEvidence ==
    \/ Create
    \/ Claim
    \/ Submit
    \/ Raise
    \/ Evidence
    \/ Resolve
    \/ NextRequest

SpecEvidence == Init /\ [][NextEvidence]_vars

\* The evidence log of open disputes; the raiser's evidence is any text the
\* raise handler stores, a text that reads as a JSON array included.
EvidenceTexts == RawEvidence \cup {"[]"}

RaiseWithEvidence ==
    \E a \in AgentIds, t \in TaskIds, ev \in EvidenceTexts :
        Ready(a) /\ RaiseDispute(a, t, "bad work", ev)

NextEvidenceLog ==
    \/ Create
    \/ Claim
    \/ Submit
    \/ RaiseWithEvidence
    \/ Evidence
    \/ NextRequest

SpecEvidenceLog == Init /\ [][NextEvidenceLog]_vars

\* Tasks created one after the other and approved: a worker's second approval.
CreateNext ==
    \E a \in AgentIds : Ready(a) /\ CreateTaskWithin(MaxSeries, a, "job", "work", "50")

Approve == \E a \in AgentIds, t \in TaskIds : Ready(a) /\ ValidateWork(a, t, "true")

NextSeries ==
    \/ CreateNext
    \/ Claim
    \/ Submit
    \/ Approve
    \/ NextRequest

SpecSeries == Init /\ [][NextSeries]_vars

\* Every credit-moving operation, transfers included.
NextLedger ==
    \/ Create
    \/ Claim
    \/ Submit
    \/ Validate
    \/ Cancel
    \/ Send
    \/ NextRequest

SpecLedger == Init /\ [][NextLedger]_vars

\* The claim handler interleaved statement by statement with other requests.
RaceSelect == \E a \in AgentIds, t \in TaskIds : ClaimSelect(a, t)
RaceUpdate == \E a \in AgentIds : ClaimUpdate(a)
RaceVerify == \E a \in AgentIds : ClaimVerify(a)

NextRace ==
    \/ Create
    \/ RaceSelect
    \/ RaceUpdate
    \/ RaceVerify
    \/ Submit
    \/ Validate
    \/ Abandon
    \/ Cancel
    \/ NextRequest

SpecRace == Init /\ [][NextRace]_vars

\* Approval and cancellation statement by statement, with the process stopping.
SerialCreate == Serial /\ Create
SerialClaim == Serial /\ Claim
SerialSubmit == Serial /\ Submit
CrashApprovePay == \E a \in AgentIds, t \in TaskIds : ApprovePay(a, t)
CrashApproveFinish == \E a \in AgentIds : ApproveFinish(a)
CrashCancelRefund == \E a \in AgentIds, t \in TaskIds : CancelRefund(a, t)
CrashCancelFinish == \E a \in AgentIds : CancelFinish(a)

NextCrash ==
    \/ SerialCreate
    \/ SerialClaim
    \/ SerialSubmit
    \/ CrashApprovePay
    \/ CrashApproveFinish
    \/ CrashCancelRefund
    \/ CrashCancelFinish
    \/ Stop
    \/ NextRequest

SpecCrash == Init /\ [][NextCrash]_vars

\* The reputation ledger driven directly.
Events ==
    \E a \in AgentIds, ty \in EventInputs, m \in Multipliers : RecordEvent(a, ty, m)

NextRep == Events

SpecRep == Init /\ [][NextRep]_vars

----------------------------------------------------------------------------
(* Credit ledger properties *)

RECURSIVE SumAmounts(_)
SumAmounts(rows) ==
    IF rows = <<>> THEN 0 ELSE Head(rows).amount + SumAmounts(Tail(rows))

\* The transaction types that return escrowed credits to a task's requester or
\* pay them to its worker.
ReleaseTypes ==
    {"task_payment", "task_payment_partial", "refund", "refund_partial",
     "escrow_release"}

IsRelease(row) == row.type \in ReleaseTypes
IsEscrowMove(row) == row.type \in ReleaseTypes \cup {"task_escrow"}

\* Credits released for a task so far, arbitration rewards excluded.
Released(taskId) ==
    SumAmounts(SelectSeq(transactions,
                 LAMBDA row : row.related_task_id = taskId /\ IsRelease(row)))

\* Signed sum of a task's escrow, payment and refund transactions.
TaskTxSum(taskId) ==
    SumAmounts(SelectSeq(transactions,
                 LAMBDA row : row.related_task_id = taskId /\ IsEscrowMove(row)))

\* Signed sum of all of an agent's transactions.
AgentTxSum(a) ==
    SumAmounts(SelectSeq(transactions, LAMBDA row : row.agent_id = a))

LogActions == [i \in 1..Len(task_log) |-> task_log[i].action]

\* C3: for every task, the credits released to its requester and worker
\* (payments plus refunds, arbitration rewards excluded) never exceed the
\* escrowed reward, and equal it once the task is completed or cancelled.
C3_EscrowConserved ==
    \A t \in 1..Len(tasks) :
        /\ Released(t) <= tasks[t].reward
        /\ tasks[t].status \in {"completed", "cancelled"} =>
               Released(t) = tasks[t].reward

\* C4: for every completed task, the signed amounts of the task's transactions
\* (the escrow debit, payments and refunds) sum to zero.
C4_CompletedTaskSumsToZero ==
    \A t \in 1..Len(tasks) :
        tasks[t].status = "completed" => TaskTxSum(t) = 0

\* C5: in every reachable state each agent's balance equals its initial
\* balance plus the sum of the amounts of its transactions.
C5_LedgerReplay ==
    \A a \in AgentIds : agents[a].credits = InitCredits[a] + AgentTxSum(a)

\* C6: in every reachable state every agent's credits is an integer >= 0.
C6_CreditsNonNegative ==
    \A a \in AgentIds : agents[a].credits \in Nat

\* C7: after create(r), claim, submit and a rejecting validation the requester's
\* balance is its balance before the creation minus r: the rejection keeps the
\* escrow.
C7_RejectKeepsEscrow ==
    LogActions = <<"created", "claimed", "submitted", "rejected">> =>
        LET r == tasks[1].requester_id
        IN  agents[r].credits = InitCredits[r] - tasks[1].reward

----------------------------------------------------------------------------
(* Reputation, dispute settlement and lifecycle properties *)

\* An agent's reputation as its events would leave it without the clamp.
RECURSIVE SumPoints(_)
SumPoints(rows) ==
    IF rows = <<>> THEN 0 ELSE Head(rows).points + SumPoints(Tail(rows))

UnclampedReputation(a) ==
    InitReputation[a] +
    SumPoints(SelectSeq(reputation_events, LAMBDA row : row.agent_id = a))

\* C8: in every reachable state every agent's reputation lies within [0, 100],
\* whatever events of whatever type and multiplier were recorded.
C8_ReputationInRange ==
    \A a \in AgentIds :
        agents[a].reputation >= 0 /\ agents[a].reputation <= 100 * RepScale

\* Both sides of the clamp have acted: one agent held at 0, another at 100.
C8_Witness ==
    /\ agents["a2"].reputation = 0
    /\ UnclampedReputation("a2") < 0
    /\ agents["a3"].reputation = 100 * RepScale
    /\ UnclampedReputation("a3") > 100 * RepScale

\* C9: resolving a dispute with decision split credits floor(reward / 2) to the
\* requester and reward - floor(reward / 2) to the worker, leaves the task
\* completed and the dispute resolved.
C9_SplitHalves ==
    [][\A i \in 1..Len(disputes) :
          (/\ disputes[i].status = "open"
           /\ disputes'[i].status = "resolved"
           /\ disputes'[i].resolution = "split") =>
          LET task == tasks[disputes[i].task_id]
              r == task.requester_id
              w == task.worker_id
              toRequester == agents'[r].credits - agents[r].credits
              toWorker == agents'[w].credits - agents[w].credits
          IN  /\ toRequester = task.reward \div 2
              /\ toWorker = task.reward - (task.reward \div 2)
              /\ toRequester + toWorker = task.reward
              /\ tasks'[disputes[i].task_id].status = "completed"]_vars

\* A split of an odd reward has been made.
C9_Witness ==
    \E i \in 1..Len(disputes) :
        /\ disputes[i].status = "resolved"
        /\ disputes[i].resolution = "split"
        /\ tasks[disputes[i].task_id].reward % 2 = 1
        /\ tasks[disputes[i].task_id].status = "completed"

\* The edges of the task lifecycle.
Edges ==
    { <<"open", "claimed">>, <<"claimed", "submitted">>,
      <<"submitted", "completed">>, <<"submitted", "open">>,
      <<"claimed", "open">>, <<"open", "cancelled">>,
      <<"submitted", "disputed">>, <<"completed", "disputed">>,
      <<"disputed", "completed">>, <<"disputed", "cancelled">> }

\* C10: a task's status changes only along the edges of the lifecycle, a new
\* task starts open, and a request that fails changes no task's status.
C10_LegalTransitions ==
    [][/\ \A t \in 1..Len(tasks) :
             tasks'[t].status # tasks[t].status =>
                 <<tasks[t].status, tasks'[t].status>> \in Edges
       /\ \A t \in (Len(tasks) + 1)..Len(tasks') : tasks'[t].status = "open"
       /\ response'.code >= 400 =>
             \A t \in 1..Len(tasks) : tasks'[t].status = tasks[t].status]_vars

\* A request was refused for the task's status after the task had been through
\* a dispute.
C10_Witness ==
    /\ response.error = "invalid_state"
    /\ \E t \in 1..Len(tasks) : tasks[t].status = "cancelled"
    /\ \E i \in 1..Len(disputes) : disputes[i].status = "resolved"

----------------------------------------------------------------------------
(* Claim protocol properties (SpecRace) *)

\* The agents whose claim of the task was confirmed since the task last became
\* open, in the order of the audit log.
ClaimsSinceOpen(taskId) ==
    LET entries == SelectSeq(task_log, LAMBDA e : e.task_id = taskId)
        opened == {i \in 1..Len(entries) :
                     entries[i].action \in {"created", "abandoned", "rejected"}}
        last == CHOOSE i \in opened : \A j \in opened : j <= i
        since == SubSeq(entries, last + 1, Len(entries))
        claims == SelectSeq(since, LAMBDA e : e.action = "claimed")
    IN  [i \in 1..Len(claims) |-> claims[i].agent_id]

\* C1: of the agents claiming an open task concurrently exactly one succeeds:
\* at most one claim is confirmed, the confirmed claimer is the task's worker,
\* and the worker's claim is confirmed once its handler has finished.
C1_OneClaimer ==
    \A t \in 1..Len(tasks) :
        LET winners == ClaimsSinceOpen(t)
            w == tasks[t].worker_id
        IN  /\ Len(winners) <= 1
            /\ Len(winners) = 1 => w = winners[1]
            /\ (w # NoAgent /\ claimPc[w] = "idle") => Len(winners) = 1

\* Two claims raced: one was confirmed and the other answered with a conflict.
C1_Witness ==
    /\ response = [op |-> "claim", code |-> 409, error |-> "conflict"]
    /\ \E t \in 1..Len(tasks) :
          /\ Len(ClaimsSinceOpen(t)) = 1
          /\ tasks[t].status = "claimed"
    /\ \A a \in AgentIds : claimPc[a] = "idle"

----------------------------------------------------------------------------
(* Handler contracts *)

\* C11: a lifecycle or dispute request that is rejected leaves every table
\* (tasks, disputes, agents, transactions, task log, reputation events, badges,
\* notifications) exactly as it was before the call.
C11_RejectedLeavesState ==
    [][response'.code >= 400 => UNCHANGED db]_vars

\* A validation by an agent that is not the requester was refused while the
\* task was waiting for validation.
C11_Witness ==
    /\ response = [op |-> "validate", code |-> 403, error |-> "forbidden"]
    /\ \E t \in 1..Len(tasks) : tasks[t].status = "submitted"

RECURSIVE SumCredits(_)
SumCredits(S) ==
    IF S = {} THEN 0
    ELSE LET a == CHOOSE x \in S : TRUE
         IN  agents[a].credits + SumCredits(S \ {a})

\* The reward of a task while it waits in escrow.
Escrowed(taskId) ==
    IF tasks[taskId].status \in {"open", "claimed", "submitted"}
    THEN tasks[taskId].reward ELSE 0

RECURSIVE SumEscrowed(_)
SumEscrowed(n) == IF n = 0 THEN 0 ELSE Escrowed(n) + SumEscrowed(n - 1)

RECURSIVE SumInitCredits(_)
SumInitCredits(S) ==
    IF S = {} THEN 0
    ELSE LET a == CHOOSE x \in S : TRUE
         IN  InitCredits[a] + SumInitCredits(S \ {a})

\* C12: approval and cancellation move the credits and change the status
\* together: whenever no handler is running, the credits held by the agents
\* and the rewards of the tasks not yet settled add up to the credits there
\* were at the start, also after the process stopped between two statements.
C12_CreditsMoveWithStatus ==
    Serial => SumCredits(AgentIds) + SumEscrowed(Len(tasks)) = SumInitCredits(AgentIds)

\* C13: a task is created only if the requester's balance is at least the
\* reward; the creation takes exactly the reward from the requester, records a
\* task_escrow transaction of -reward and leaves the task open without a
\* worker; with a lower balance the request fails with insufficient credits,
\* and a failed creation makes no task and moves no credits.
C13_CreateEscrows ==
    [][/\ response'.op = "create" =>
             IF response'.code = 201
             THEN LET id == Len(tasks')
                      new == tasks'[id]
                      r == new.requester_id
                      tx == transactions'[Len(transactions')]
                  IN  /\ id = Len(tasks) + 1
                      /\ agents[r].credits >= new.reward
                      /\ agents'[r].credits = agents[r].credits - new.reward
                      /\ new.status = "open"
                      /\ new.worker_id = NoAgent
                      /\ Len(transactions') = Len(transactions) + 1
                      /\ tx.agent_id = r
                      /\ tx.type = "task_escrow"
                      /\ tx.amount = 0 - new.reward
                      /\ tx.related_task_id = id
             ELSE tasks' = tasks /\ agents' = agents /\ transactions' = transactions
       /\ \A a \in AgentIds, rw \in {"50", "300"} :
             (/\ agents[a].credits < ParseInt(rw)
              /\ Ready(a)
              /\ CreateTask(a, "job", "work", rw)) =>
                 response'.error = "insufficient_credits"]_vars

\* A task was created by an agent that held exactly the reward.
C13_Witness ==
    /\ response = [op |-> "create", code |-> 201, error |-> "none"]
    /\ \E t \in 1..Len(tasks) :
          /\ tasks[t].reward = 50
          /\ agents[tasks[t].requester_id].credits = 0

\* C14: a creation request whose reward is zero or negative fails with an
\* input error (HTTP 400): no task is created and no credits are debited.
C14_RewardBelowOneRejected ==
    [][\A a \in AgentIds, rw \in {"-5", "0"} :
          (Ready(a) /\ CreateTask(a, "job", "work", rw)) =>
              /\ response'.code = 400
              /\ tasks' = tasks
              /\ agents' = agents]_vars

\* A step in which the requester's approval completes a submitted task.
Approved(t) ==
    /\ t \in 1..Len(tasks)
    /\ tasks[t].status = "submitted"
    /\ tasks'[t].status = "completed"
    /\ response' = [op |-> "validate", code |-> 200, error |-> "none"]

\* What an approval does apart from the worker's reputation: the worker gets
\* exactly the reward, the requester's balance stays, the worker's completed
\* counter goes up by one.
ApprovalPays(t) ==
    LET r == tasks[t].requester_id
        w == tasks[t].worker_id
    IN  /\ agents'[w].credits = agents[w].credits + tasks[t].reward
        /\ agents'[r].credits = agents[r].credits
        /\ agents'[w].tasks_completed = agents[w].tasks_completed + 1

\* C15 as stated: an approval pays the worker the reward, leaves the requester's
\* balance, completes the task, counts the completion and raises the worker's
\* reputation by the TASK_COMPLETED points (+3, clamped to 100).
C15_ApprovalRaisesByThree ==
    [][\A t \in 1..Len(tasks) :
          Approved(t) =>
              LET w == tasks[t].worker_id
              IN  /\ ApprovalPays(t)
                  /\ agents'[w].reputation =
                         Min(100 * RepScale,
                             agents[w].reputation + 3 * RepScale)]_vars

\* C15 amended: the reputation rises by the TASK_COMPLETED points (+3), by the
\* HIGH_VALUE_TASK points (+2) when the reward is at least 50 and by the
\* FIRST_TASK points (+5) when it is the worker's first completion, clamped
\* to 100.
C15_ApprovalRaisesWithBonuses ==
    [][\A t \in 1..Len(tasks) :
          Approved(t) =>
              LET w == tasks[t].worker_id
                  highValue == IF tasks[t].reward >= 50 THEN 2 * RepScale ELSE 0
                  first == IF agents[w].tasks_completed = 0 THEN 5 * RepScale ELSE 0
              IN  /\ ApprovalPays(t)
                  /\ agents'[w].reputation =
                         Min(100 * RepScale,
                             agents[w].reputation + 3 * RepScale + highValue + first)]_vars

\* An approval of a small task for a worker that had completed tasks before:
\* the reputation rose by exactly 3.
C15_Witness ==
    /\ response = [op |-> "validate", code |-> 200, error |-> "none"]
    /\ \E t \in 1..Len(tasks) :
          /\ tasks[t].status = "completed"
          /\ tasks[t].reward = 1
          /\ tasks[t].worker_id = "a3"
          /\ agents["a3"].tasks_completed = InitCompleted["a3"] + 1
          /\ agents["a3"].reputation = InitReputation["a3"] + 3 * RepScale

----------------------------------------------------------------------------
(* Dispute properties *)

\* The open disputes of a task.
OpenOn(taskId) ==
    {i \in 1..Len(disputes) :
        disputes[i].task_id = taskId /\ disputes[i].status = "open"}

\* C16: in every reachable state each task has at most one open dispute, and a
\* request to raise a dispute on a task that has an open one fails and creates
\* no dispute.
C16_OneOpenDispute ==
    /\ [](\A t \in 1..Len(tasks) : Cardinality(OpenOn(t)) <= 1)
    /\ [][\A a \in AgentIds, t \in 1..Len(tasks) :
             (/\ OpenOn(t) # {}
              /\ Ready(a)
              /\ RaiseDispute(a, t, "bad work", "log")) =>
                 /\ response'.code >= 400
                 /\ disputes' = disputes]_vars

\* A party asked for a dispute on a task whose second dispute is open, the
\* first being resolved, and was refused.
C16_Witness ==
    /\ response.op = "raise"
    /\ response.code = 400
    /\ Len(disputes) = 2
    /\ disputes[1].task_id = disputes[2].task_id
    /\ disputes[1].status = "resolved"
    /\ disputes[2].status = "open"

\* The requester and the worker of the task a dispute is about.
Parties(i) ==
    {tasks[disputes[i].task_id].requester_id, tasks[disputes[i].task_id].worker_id}

C18_ResolverHasEighty ==
    [][\A i \in 1..Len(disputes) :
          (disputes[i].status = "open" /\ disputes'[i].status = "resolved") =>
              agents[disputes'[i].resolved_by].reputation >= 80 * RepScale]_vars

\* min(10, floor(reward * 0.05))
Fee(reward) == IF (reward * 5) \div 100 > 10 THEN 10 ELSE (reward * 5) \div 100

\* C19: when a dispute is resolved by an agent that is no party to the task,
\* that agent's balance rises by exactly min(10, floor(reward * 0.05)), and the
\* parties together still receive the whole reward; when it is resolved by a
\* party no other agent's balance changes and the credits paid out are the
\* reward.
C19_ArbitrationFee ==
    [][\A a \in AgentIds, i \in 1..Len(disputes),
         de \in {"favor_requester", "favor_worker", "split", "cancel"} :
          (/\ disputes[i].status = "open"
           /\ Ready(a)
           /\ ResolveDispute(a, i, de)
           /\ response'.code = 200) =>
              LET reward == tasks[disputes[i].task_id].reward
                  paid == SumCredits(AgentIds)' - SumCredits(AgentIds)
              IN  /\ \A p \in Parties(i) : agents'[p].credits >= agents[p].credits
                  /\ \A b \in AgentIds \ (Parties(i) \cup {a}) :
                         agents'[b].credits = agents[b].credits
                  /\ IF a \in Parties(i)
                     THEN paid = reward
                     ELSE /\ agents'[a].credits = agents[a].credits + Fee(reward)
                          /\ paid = reward + Fee(reward)]_vars

\* An arbitrator resolved the dispute about a task of 300 and holds the capped
\* fee of 10.
C19_Witness ==
    /\ response = [op |-> "resolve", code |-> 200, error |-> "none"]
    /\ \E i \in 1..Len(disputes) :
          /\ disputes[i].status = "resolved"
          /\ disputes[i].resolved_by = "a3"
          /\ "a3" \notin Parties(i)
          /\ tasks[disputes[i].task_id].reward = 300
          /\ agents["a3"].credits = 10

----------------------------------------------------------------------------
(* Badge properties *)

\* C20: an agent holds at most one badge of each type, a badge once held is
\* never removed, and evaluating an agent's badges again when nothing new is
\* earned changes no table and sends no notification.
C20_BadgesUniquePermanent ==
    /\ [](/\ \A i, j \in 1..Len(badges) : badges[i] = badges[j] => i = j
          /\ \A a \in AgentIds :
                LET d1 == checkAndAwardBadges(Cur, a)
                IN  checkAndAwardBadges(d1, a) = d1)
    /\ [][\A i \in 1..Len(badges) :
             i <= Len(badges') /\ badges'[i] = badges[i]]_vars

\* a3 still holds the badge for a reputation of 75 after falling below it, and
\* a badge has been awarded and announced.
C20_Witness ==
    /\ agents["a3"].reputation < 75 * RepScale
    /\ \E i \in 1..Len(badges) :
          badges[i] = [agent_id |-> "a3", badge_type |-> "trusted"]
    /\ \E i \in 1..Len(notifications) : notifications[i].type = "badge"

----------------------------------------------------------------------------
(* Reputation ledger properties *)

\* The score the events of one agent give when applied in order, each step
\* clamped to [0, 100].
RECURSIVE ReplayReputation(_, _)
ReplayReputation(score, rows) ==
    IF rows = <<>> THEN score
    ELSE ReplayReputation(Max(0, Min(100 * RepScale, score + Head(rows).points)),
                          Tail(rows))

EventsOf(a) == SelectSeq(reputation_events, LAMBDA row : row.agent_id = a)

\* C21: in every reachable state each agent's stored reputation is the result
\* of replaying the agent's reputation events in order from the initial value
\* 50, clamping to [0, 100] at every event.
C21_ReputationReplay ==
    \A a \in AgentIds :
        agents[a].reputation = ReplayReputation(50 * RepScale, EventsOf(a))

----------------------------------------------------------------------------
(* Transfer properties (SpecLedger) *)

\* C22: a transfer that succeeds is to another agent, of at least 1 credit and
\* of no more than the sender's balance; it takes the amount from the sender
\* and adds it to the recipient, so that the sum of all balances is unchanged
\* and neither balance is negative.  A transfer to oneself, of less than 1
\* credit or of more than the sender's balance is rejected and changes no
\* balance.
C22_TransferMovesAmount ==
    [][\A s \in AgentIds, to \in Recipients, am \in RawAmounts :
          (Ready(s) /\ Transfer(s, to, am)) =>
              LET amount == ParseInt(am)
              IN  /\ response'.code = 201 =>
                         /\ to \in AgentIds \ {s}
                         /\ amount >= 1
                         /\ amount <= agents[s].credits
                         /\ agents'[s].credits = agents[s].credits - amount
                         /\ agents'[to].credits = agents[to].credits + amount
                         /\ agents'[s].credits >= 0
                         /\ agents'[to].credits >= 0
                         /\ \A b \in AgentIds \ {s, to} : agents'[b] = agents[b]
                         /\ SumCredits(AgentIds)' = SumCredits(AgentIds)
                  /\ (\/ to = s
                      \/ amount # NaN /\ amount < 1
                      \/ amount # NaN /\ amount > agents[s].credits) =>
                         /\ response'.code >= 400
                         /\ agents' = agents]_vars

----------------------------------------------------------------------------
(* Cancellation, approval, rejection and abandonment *)

\* C23: after a task was created, went through any number of claim/abandon
\* and claim/submit/reject rounds and was then cancelled, the requester's
\* balance is what it was before the creation.
C23_CancelReturnsEscrow ==
    (/\ Len(tasks) = 1
     /\ disputes = <<>>
     /\ tasks[1].status = "cancelled"
     /\ LogActions[Len(LogActions)] = "cancelled") =>
        agents[tasks[1].requester_id].credits = InitCredits[tasks[1].requester_id]

\* The reputation events a step appends, as <<agent, type, points>>.
NewEvents ==
    [i \in 1..(Len(reputation_events') - Len(reputation_events)) |->
        LET row == reputation_events'[Len(reputation_events) + i]
        IN  <<row.agent_id, row.event_type, row.points>>]

\* C24: an approval appends for the worker exactly one TASK_COMPLETED event
\* (+3), then one HIGH_VALUE_TASK event (+2) if and only if the reward is at
\* least 50, then one FIRST_TASK event (+5) if and only if the worker had
\* completed no task before, and no other event.
C24_ApprovalEvents ==
    [][\A t \in 1..Len(tasks) :
          Approved(t) =>
              LET w == tasks[t].worker_id
                  completed == << <<w, "TASK_COMPLETED", 3 * RepScale>> >>
                  highValue == IF tasks[t].reward >= 50
                               THEN << <<w, "HIGH_VALUE_TASK", 2 * RepScale>> >>
                               ELSE <<>>
                  first == IF agents[w].tasks_completed = 0
                           THEN << <<w, "FIRST_TASK", 5 * RepScale>> >>
                           ELSE <<>>
              IN  /\ Len(reputation_events') >= Len(reputation_events)
                  /\ SubSeq(reputation_events', 1, Len(reputation_events)) =
                         reputation_events
                  /\ NewEvents = completed \o highValue \o first]_vars

\* Both kinds of approval have their case: a2's first completion, of a task of
\* 50, left the three events; the events of an approval without any bonus are
\* seen in C15_Witness.
C24_Witness ==
    /\ response = [op |-> "validate", code |-> 200, error |-> "none"]
    /\ \E t \in 1..Len(tasks) :
          /\ tasks[t].status = "completed"
          /\ tasks[t].reward = 50
          /\ tasks[t].worker_id = "a2"
    /\ Len(reputation_events) >= 3
    /\ LET n == Len(reputation_events)
       IN  /\ reputation_events[n - 2] =
                 [agent_id |-> "a2", event_type |-> "TASK_COMPLETED",
                  points |-> 3 * RepScale]
           /\ reputation_events[n - 1] =
                 [agent_id |-> "a2", event_type |-> "HIGH_VALUE_TASK",
                  points |-> 2 * RepScale]
           /\ reputation_events[n] =
                 [agent_id |-> "a2", event_type |-> "FIRST_TASK",
                  points |-> 5 * RepScale]

\* A step in which the requester's rejection reopens a submitted task.
Rejected(t) ==
    /\ t \in 1..Len(tasks)
    /\ tasks[t].status = "submitted"
    /\ tasks'[t].status = "open"
    /\ response' = [op |-> "validate", code |-> 200, error |-> "none"]

\* C25: a rejecting validation of a submitted task leaves the task open with
\* worker, claim time, submission time and proof cleared, raises the rejected
\* worker's tasks_failed by one and nobody else's, appends exactly one
\* TASK_REJECTED event (-5) for that worker, and leaves the task such that a
\* claim by any agent other than the requester would succeed.
C25_RejectionReopens ==
    [][\A t \in 1..Len(tasks) :
          Rejected(t) =>
              LET w == tasks[t].worker_id
              IN  /\ tasks'[t].worker_id = NoAgent
                  /\ tasks'[t].claimed_at = FALSE
                  /\ tasks'[t].submitted_at = FALSE
                  /\ tasks'[t].proof_submitted = "null"
                  /\ tasks'[t].reward = tasks[t].reward
                  /\ tasks'[t].requester_id = tasks[t].requester_id
                  /\ agents'[w].tasks_failed = agents[w].tasks_failed + 1
                  /\ \A b \in AgentIds \ {w} :
                         agents'[b].tasks_failed = agents[b].tasks_failed
                  /\ SubSeq(reputation_events', 1, Len(reputation_events)) =
                         reputation_events
                  /\ NewEvents = << <<w, "TASK_REJECTED", 0 - 5 * RepScale>> >>
                  /\ \A b \in AgentIds \ {tasks[t].requester_id} :
                         /\ ClaimPrecheck(b, t)' = "ok"
                         /\ ClaimVerified(ClaimUpdateStmt(Cur, b, t), b, t)']_vars

\* The task rejected for a2 has been claimed again, by a3.
C25_Witness ==
    /\ response = [op |-> "claim", code |-> 200, error |-> "none"]
    /\ LogActions = <<"created", "claimed", "submitted", "rejected", "claimed">>
    /\ task_log[2].agent_id = "a2"
    /\ agents["a2"].tasks_failed = 1
    /\ tasks[1].status = "claimed"
    /\ tasks[1].worker_id = "a3"

----------------------------------------------------------------------------
(* Dispute outcomes *)

\* The transaction rows a step appends, as <<agent, type, amount, task>>.
NewTransactions ==
    [i \in 1..(Len(transactions') - Len(transactions)) |->
        LET row == transactions'[Len(transactions) + i]
        IN  <<row.agent_id, row.type, row.amount, row.related_task_id>>]

\* A successful request of caller a to resolve the open dispute i as de.
Resolves(a, i, de) ==
    /\ disputes[i].status = "open"
    /\ Ready(a)
    /\ ResolveDispute(a, i, de)
    /\ response'.code = 200

\* C27: resolving a dispute in favour of the worker pays the worker the whole
\* reward, recorded as task_payment, raises the worker's tasks_completed by
\* one, sets the task to completed, appends DISPUTE_WON (+2) for the worker
\* and DISPUTE_LOST (-3) for the requester and no other event, and leaves the
\* requester's balance as it was.
C27_FavorWorker ==
    [][\A a \in AgentIds, i \in 1..Len(disputes) :
          Resolves(a, i, "favor_worker") =>
              LET t == disputes[i].task_id
                  r == tasks[t].requester_id
                  w == tasks[t].worker_id
                  reward == tasks[t].reward
              IN  /\ agents'[w].credits = agents[w].credits + reward
                  /\ agents'[r].credits = agents[r].credits
                  /\ Len(NewTransactions) >= 1
                  /\ NewTransactions[1] = <<w, "task_payment", reward, t>>
                  /\ \A k \in 2..Len(NewTransactions) :
                         NewTransactions[k][1] \notin {r, w}
                  /\ agents'[w].tasks_completed = agents[w].tasks_completed + 1
                  /\ agents'[w].tasks_failed = agents[w].tasks_failed
                  /\ tasks'[t].status = "completed"
                  /\ NewEvents = << <<w, "DISPUTE_WON", 2 * RepScale>>,
                                    <<r, "DISPUTE_LOST", 0 - 3 * RepScale>> >>]_vars

\* A dispute about a task waiting for validation was resolved for the worker
\* a2, who holds the reward of 50 and one completion.
C27_Witness ==
    /\ response = [op |-> "resolve", code |-> 200, error |-> "none"]
    /\ Len(disputes) = 1
    /\ disputes[1].resolution = "favor_worker"
    /\ LogActions = <<"created", "claimed", "submitted">>
    /\ tasks[1].status = "completed"
    /\ tasks[1].worker_id = "a2"
    /\ agents["a2"].credits = 50
    /\ agents["a2"].tasks_completed = 1
    /\ agents["a1"].credits = 250

\* C28: resolving a dispute in favour of the requester refunds the requester
\* the whole reward, raises the worker's tasks_failed by one, sets the task to
\* cancelled, appends DISPUTE_WON (+2) for the requester and DISPUTE_LOST (-3)
\* for the worker and no other event, and leaves the worker's balance as it
\* was.
C28_FavorRequester ==
    [][\A a \in AgentIds, i \in 1..Len(disputes) :
          Resolves(a, i, "favor_requester") =>
              LET t == disputes[i].task_id
                  r == tasks[t].requester_id
                  w == tasks[t].worker_id
                  reward == tasks[t].reward
              IN  /\ agents'[r].credits = agents[r].credits + reward
                  /\ agents'[w].credits = agents[w].credits
                  /\ Len(NewTransactions) >= 1
                  /\ NewTransactions[1] = <<r, "refund", reward, t>>
                  /\ \A k \in 2..Len(NewTransactions) :
                         NewTransactions[k][1] \notin {r, w}
                  /\ agents'[w].tasks_failed = agents[w].tasks_failed + 1
                  /\ agents'[w].tasks_completed = agents[w].tasks_completed
                  /\ tasks'[t].status = "cancelled"
                  /\ NewEvents = << <<r, "DISPUTE_WON", 2 * RepScale>>,
                                    <<w, "DISPUTE_LOST", 0 - 3 * RepScale>> >>]_vars

\* The arbitrator a3 resolved for the requester a dispute about a task waiting
\* for validation: a1 has its 300 credits back and a2 has one failure.
C28_Witness ==
    /\ response = [op |-> "resolve", code |-> 200, error |-> "none"]
    /\ Len(disputes) = 1
    /\ disputes[1].resolution = "favor_requester"
    /\ disputes[1].resolved_by = "a3"
    /\ LogActions = <<"created", "claimed", "submitted">>
    /\ tasks[1].status = "cancelled"
    /\ tasks[1].worker_id = "a2"
    /\ agents["a1"].credits = 300
    /\ agents["a2"].credits = 0
    /\ agents["a2"].tasks_failed = 1

\* C29: resolving a dispute as split or as cancel appends no reputation event
\* and changes no agent's reputation, tasks_completed or tasks_failed; cancel
\* refunds the requester the whole reward and sets the task to cancelled.
C29_NeutralOutcomes ==
    [][\A a \in AgentIds, i \in 1..Len(disputes), de \in {"split", "cancel"} :
          Resolves(a, i, de) =>
              LET t == disputes[i].task_id
                  r == tasks[t].requester_id
                  reward == tasks[t].reward
              IN  /\ reputation_events' = reputation_events
                  /\ \A b \in AgentIds :
                         /\ agents'[b].reputation = agents[b].reputation
                         /\ agents'[b].tasks_completed = agents[b].tasks_completed
                         /\ agents'[b].tasks_failed = agents[b].tasks_failed
                  /\ de = "cancel" =>
                         /\ agents'[r].credits = agents[r].credits + reward
                         /\ Len(NewTransactions) >= 1
                         /\ NewTransactions[1] = <<r, "refund", reward, t>>
                         /\ tasks'[t].status = "cancelled"]_vars

\* The worker a2 had the dispute about its submitted work cancelled: a1 has its
\* 300 credits back and no reputation event was ever recorded.
C29_Witness ==
    /\ response = [op |-> "resolve", code |-> 200, error |-> "none"]
    /\ Len(disputes) = 1
    /\ disputes[1].resolution = "cancel"
    /\ disputes[1].resolved_by = "a2"
    /\ tasks[1].status = "cancelled"
    /\ tasks[1].worker_id = "a2"
    /\ agents["a1"].credits = 300
    /\ reputation_events = <<>>
    /\ \A b \in AgentIds :
          /\ agents[b].reputation = InitReputation[b]
          /\ agents[b].tasks_completed = InitCompleted[b]
          /\ agents[b].tasks_failed = 0

----------------------------------------------------------------------------
(* Audit log and task row properties *)

\* The audit entries of one task.
TaskHistory(log, taskId) == SelectSeq(log, LAMBDA e : e.task_id = taskId)

\* C31: the creation of a task and every change of its status, the changes
\* made by raising and by resolving a dispute included, append exactly one
\* entry to the task's history, and a step that does not change the status
\* appends none; so the history has one entry more than there were status
\* changes.
C31_TransitionLogged ==
    [][\A t \in 1..Len(tasks') :
          LET grown == Len(TaskHistory(task_log', t)) - Len(TaskHistory(task_log, t))
          IN  IF t > Len(tasks) THEN grown = 1
              ELSE IF tasks'[t].status # tasks[t].status THEN grown = 1
              ELSE grown = 0]_vars

\* C32: in every reachable state a task that has a worker is claimed,
\* submitted, completed or disputed, and a task that is open or cancelled has
\* no worker.
C32_WorkerOnlyWhileAssigned ==
    \A t \in 1..Len(tasks) :
        /\ tasks[t].worker_id # NoAgent =>
               tasks[t].status \in {"claimed", "submitted", "completed", "disputed"}
        /\ tasks[t].status \in {"open", "cancelled"} => tasks[t].worker_id = NoAgent

\* C33: the balance_after of every transaction row is the balance its agent
\* has once the credit movement the row records has been made.  Within one
\* request an agent's credits move at most once, so that balance is the one
\* the request leaves.
C33_BalanceAfterIsBalance ==
    [][\A k \in (Len(transactions) + 1)..Len(transactions') :
          transactions'[k].balance_after =
              agents'[transactions'[k].agent_id].credits]_vars

----------------------------------------------------------------------------
(* Evidence log *)

\* The evidence given on a dispute, oldest first, as <<text, agent>>: the
\* raiser's evidence, if any, then what the parties added.
EvidenceLog(dispute) ==
    IF dispute.evidence = "json"
    THEN [k \in 1..Len(dispute.entries) |->
             <<dispute.entries[k].text, dispute.entries[k].agent_id>>]
    ELSE IF dispute.evidence = "null" THEN <<>>
    ELSE << <<dispute.evidence, dispute.raised_by>> >>

\* C34: a request to add evidence succeeds only on an open dispute and only
\* for its raiser or the requester or worker of its task; when it succeeds
\* the dispute's evidence log is the old log with the new entry appended, and
\* no other dispute changes; when it fails no table changes.
C34_EvidenceAppended ==
    [][response'.op = "evidence" =>
          \A a \in AgentIds, i \in DisputeIds, ev \in RawEvidence :
              (Ready(a) /\ AddEvidence(a, i, ev)) =>
                  IF response'.code = 200
                  THEN /\ disputes[i].status = "open"
                       /\ a \in {disputes[i].raised_by,
                                 tasks[disputes[i].task_id].requester_id,
                                 tasks[disputes[i].task_id].worker_id}
                       /\ EvidenceLog(disputes'[i]) =
                              Append(EvidenceLog(disputes[i]),
                                     <<sanitizeString(ev), a>>)
                       /\ \A j \in 1..Len(disputes) :
                              j # i => disputes'[j] = disputes[j]
                  ELSE UNCHANGED db]_vars

----------------------------------------------------------------------------
(* Requester and worker *)

\* C35: the worker of a task is never its requester: a request by the
\* requester to claim the task is refused with 400 and changes no table, so an
\* open task stays open and without a worker.
C35_WorkerNotRequester ==
    /\ \A t \in 1..Len(tasks) : tasks[t].worker_id # tasks[t].requester_id
    /\ [][/\ \A t \in 1..Len(tasks') :
                tasks'[t].worker_id # tasks'[t].requester_id
          /\ response'.op = "claim" =>
                \A a \in AgentIds, t \in 1..Len(tasks) :
                    (/\ tasks[t].requester_id = a
                     /\ Ready(a)
                     /\ ClaimTask(a, t)) =>
                        /\ response'.code = 400
                        /\ UNCHANGED db
                        /\ tasks[t].status = "open" =>
                               /\ tasks'[t].status = "open"
                               /\ tasks'[t].worker_id = NoAgent]_vars

\* The requester asked for their own open task and was refused.
C35_Witness ==
    /\ response = [op |-> "claim", code |-> 400, error |-> "own_task"]
    /\ \E t \in 1..Len(tasks) :
           tasks[t].status = "open" /\ tasks[t].worker_id = NoAgent

----------------------------------------------------------------------------
(* Cancelled tasks *)

\* C36: a cancelled task stays as it is: no request changes its row, writes a
\* transaction for it or opens a dispute on it, and a request that creates no
\* task and changes no other task changes no agent's credits.
C36_CancelledIsTerminal ==
    [][\A t \in 1..Len(tasks) :
          tasks[t].status = "cancelled" =>
              /\ tasks'[t] = tasks[t]
              /\ \A k \in 1..Len(NewTransactions) : NewTransactions[k][4] # t
              /\ \A i \in 1..Len(disputes') :
                     disputes'[i].task_id = t =>
                         i <= Len(disputes) /\ disputes'[i] = disputes[i]
              /\ (/\ Len(tasks') = Len(tasks)
                  /\ \A u \in 1..Len(tasks) : u # t => tasks'[u] = tasks[u]) =>
                     \A a \in AgentIds : agents'[a].credits = agents[a].credits]_vars

\* A cancelled task was the subject of a request, which was refused.
C36_Witness ==
    /\ \E t \in 1..Len(tasks) : tasks[t].status = "cancelled"
    /\ response.op \in {"claim", "submit", "validate", "abandon", "cancel", "raise"}
    /\ response.code = 400
    /\ response.error \in {"not_open", "invalid_state"}

----------------------------------------------------------------------------
(* Malformed transfer amounts *)

\* C37: a transfer to another agent whose amount is not empty and does not
\* read as an integer is refused with 400, and the credits of sender and
\* recipient stay as they were.
C37_MalformedAmountRejected ==
    [][response'.op = "transfer" =>
          \A a \in AgentIds, to \in AgentIds, am \in RawAmounts :
              (/\ to # a
               /\ ~Falsy(am)
               /\ ParseInt(am) = NaN
               /\ Ready(a)
               /\ Transfer(a, to, am)) =>
                  /\ response'.code = 400
                  /\ agents'[a].credits = agents[a].credits
                  /\ agents'[to].credits = agents[to].credits]_vars

----------------------------------------------------------------------------
(* Tasks and their disputes *)

\* C38: a task has status disputed exactly when there is an open dispute for
\* it.
C38_DisputedIffOpenDispute ==
    \A t \in 1..Len(tasks) :
        tasks[t].status = "disputed" <=> OpenDisputes(disputes, t) # {}

\* A task with a resolved dispute and a second one, open.
C38_Witness ==
    \E t \in 1..Len(tasks) :
        /\ tasks[t].status = "disputed"
        /\ \E i, j \in 1..Len(disputes) :
               /\ disputes[i].task_id = t /\ disputes[i].status = "resolved"
               /\ disputes[j].task_id = t /\ disputes[j].status = "open"

----------------------------------------------------------------------------
(* First-task event *)

\* The FIRST_TASK events of agent a.
FirstTaskEvents(events, a) ==
    SelectSeq(events, LAMBDA e : e.agent_id = a /\ e.event_type = "FIRST_TASK")

\* C39: every agent has at most one FIRST_TASK event: the event is written
\* only by an approval that leaves the worker's tasks_completed at 1, and
\* tasks_completed never decreases.
C39_FirstTaskOnce ==
    /\ \A a \in AgentIds : Len(FirstTaskEvents(reputation_events, a)) <= 1
    /\ [][\A a \in AgentIds :
             /\ Len(FirstTaskEvents(reputation_events', a)) <= 1
             /\ agents'[a].tasks_completed >= agents[a].tasks_completed
             /\ Len(FirstTaskEvents(reputation_events', a)) >
                    Len(FirstTaskEvents(reputation_events, a)) =>
                    /\ response' = [op |-> "validate", code |-> 200, error |-> "none"]
                    /\ agents[a].tasks_completed = 0
                    /\ agents'[a].tasks_completed = 1]_vars

\* An agent approved twice, with the one FIRST_TASK event of the first approval.
C39_Witness ==
    \E a \in AgentIds :
        /\ agents[a].tasks_completed = 2
        /\ Len(FirstTaskEvents(reputation_events, a)) = 1
        /\ Len(SelectSeq(tasks, LAMBDA t : t.worker_id = a /\ t.status = "completed")) = 2

----------------------------------------------------------------------------
(* Progress of tasks *)

\* The step gives task t another status.
Moves(t) == tasks'[t].status # tasks[t].status

\* Some party of dispute i of task t can resolve it now.
PartyCanResolve(t, i) ==
    \E a \in AgentIds \cap {disputes[i].raised_by, tasks[t].requester_id,
                             tasks[t].worker_id} :
        \E de \in Decisions :
            ENABLED (Ready(a) /\ ResolveDispute(a, i, de) /\ Moves(t))

====
